---- MODULE Spec2Model ----
(***************************************************************************)
(* A model of patrickmn/go-bitset, src/bitset.go: the Bitset type backed   *)
(* by a slice of unsigned words, its per-bit operations, Copy, Count and   *)
(* the set algebra.                                                        *)
(*                                                                         *)
(* The source fixes the word and the index type to uint32 (lWord = 32,     *)
(* lLog2Word = 5, so that an index addresses 2^27 words).  The model keeps *)
(* the code's arithmetic and scales the two widths: a word has             *)
(* lWord = 2^lLog2Word bits and an index addresses 2^lLog2Count words, so  *)
(* a word-valued uint32 expression is computed modulo 2^lWord and an       *)
(* index-valued one modulo 2^(lLog2Word + lLog2Count).  lLog2Word and      *)
(* lLog2Count are the bounds of the model.                                 *)
(*                                                                         *)
(* Slices are modelled as references into a heap (mem), so that two        *)
(* bitsets sharing a backing array is a state the model can express.  A    *)
(* Go run-time panic (index out of range) is the flag `panicked`: the      *)
(* assignments made before the panicking statement stay in the state and   *)
(* no further operation runs.                                              *)
(***************************************************************************)
EXTENDS Naturals, Sequences, FiniteSets

\* log2 of the word width; 5 in the source (src/bitset.go:15).
lLog2Word == 2

\* log2 of the number of words an index addresses; 32 - 5 = 27 in the source.
lLog2Count == 2

lWord == 2 ^ lLog2Word

\* A uint32 that holds a word wraps modulo WordMod, one that holds an index or
\* a length modulo UintMod (both 2^32 in the source).
WordMod == 2 ^ lWord

UintMod == 2 ^ (lLog2Word + lLog2Count)

\* math.MaxUint32
MaxUint == UintMod - 1

allBits == WordMod - 1

Word == 0 .. (WordMod - 1)

U(x) == x % UintMod

\* ------------------------------------------------------------ word operators
\* The bitwise operators of Go on words, bit by bit, tabulated once.

Shr(x, k) == x \div (2 ^ k)

Shl(x, k) == (x * (2 ^ k)) % WordMod

BitAt(x, k) == (x \div (2 ^ k)) % 2

\* One bit of x op y, for op one of "&", "|", "^", "&^".
BitOp(op, p, q) ==
  CASE op = "&" -> p * q
    [] op = "|" -> IF p + q > 0 THEN 1 ELSE 0
    [] op = "^" -> (p + q) % 2
    [] op = "&^" -> p * (1 - q)

RECURSIVE BitSum(_, _, _, _)
BitSum(op, x, y, k) ==
  IF k = lWord THEN 0
  ELSE BitOp(op, BitAt(x, k), BitAt(y, k)) * (2 ^ k) + BitSum(op, x, y, k + 1)

AndTable == [x \in Word |-> [y \in Word |-> BitSum("&", x, y, 0)]]

And(x, y) == AndTable[x][y]

OrTable == [x \in Word |-> [y \in Word |-> BitSum("|", x, y, 0)]]

Or(x, y) == OrTable[x][y]

XorTable == [x \in Word |-> [y \in Word |-> BitSum("^", x, y, 0)]]

Xor(x, y) == XorTable[x][y]

AndNotTable == [x \in Word |-> [y \in Word |-> BitSum("&^", x, y, 0)]]

AndNot(x, y) == AndNotTable[x][y]

Not(x) == allBits - x

\* i >> lLog2Word: the (0-based) index of the word holding bit i.
WordIdx(i) == Shr(i, lLog2Word)

\* 1 << (i & (lWord - 1)): the mask of bit i within its word.
BitMask(i) == Shl(1, BitSum("&", i, lWord - 1, 0))

wordsNeeded(n) ==
  IF n = 0 THEN 1
  ELSE IF n = MaxUint THEN Shr(MaxUint, lLog2Word)
  ELSE Shr(U(n + (lWord - 1)), lLog2Word)

\* make([]uint32, k): k zero words.
Zeros(k) == [j \in 1 .. k |-> 0]

\* ------------------------------------------------- operations on bitset values
\* A bitset value is a record [n, b, p]: b.n, the words of b.b (b[k + 1] is the
\* source's b.b[k]) and p, the identity of the backing array of b.b.
\* An operation that can panic returns the value with a field ok; ok = FALSE
\* is "panic: index out of range", and the value is what the operation had
\* assigned by then.

Length(bv) == bv.n

\* b.b[k] is in range.
InRange(bv, k) == k < Len(bv.b)

\* Test panics: the word of an index below b.n does not exist.
TestPanics(bv, i) == i < bv.n /\ ~InRange(bv, WordIdx(i))

\* The value Test returns (when it returns).
Test(bv, i) ==
  /\ i < bv.n
  /\ InRange(bv, WordIdx(i))
  /\ And(bv.b[WordIdx(i) + 1], BitMask(i)) # 0

\* New(n), the backing array being the fresh array q that make() returns.
New(n, q) == [n |-> n, b |-> Zeros(wordsNeeded(n)), p |-> q]

Set(bv, i) ==
  LET grow  == i >= bv.n
      nsize == wordsNeeded(U(i + 1))
      l     == Len(bv.b)
      b1    == IF grow /\ nsize > l THEN bv.b \o Zeros(nsize - l) ELSE bv.b
      n1    == IF grow THEN U(i + 1) ELSE bv.n
      k     == WordIdx(i)
  IN  IF k < Len(b1)
      THEN [ok |-> TRUE, n |-> n1, p |-> bv.p,
            b |-> [b1 EXCEPT ![k + 1] = Or(@, BitMask(i))]]
      ELSE [ok |-> FALSE, n |-> n1, p |-> bv.p, b |-> b1]

Clear(bv, i) ==
  LET k == WordIdx(i)
  IN  IF i >= bv.n THEN [ok |-> TRUE, n |-> bv.n, p |-> bv.p, b |-> bv.b]
      ELSE IF k < Len(bv.b)
      THEN [ok |-> TRUE, n |-> bv.n, p |-> bv.p,
            b |-> [bv.b EXCEPT ![k + 1] = AndNot(@, BitMask(i))]]
      ELSE [ok |-> FALSE, n |-> bv.n, p |-> bv.p, b |-> bv.b]

Flip(bv, i) ==
  LET s == IF i >= bv.n THEN Set(bv, i)
           ELSE [ok |-> TRUE, n |-> bv.n, p |-> bv.p, b |-> bv.b]
      k == WordIdx(i)
  IN  IF ~s.ok THEN s
      ELSE IF k < Len(s.b)
      THEN [s EXCEPT !.b[k + 1] = Xor(@, BitMask(i))]
      ELSE [s EXCEPT !.ok = FALSE]

ClearAll(bv) == [bv EXCEPT !.b = Zeros(Len(bv.b))]

\* copy(dst, src) of Go: the first min(len(dst), len(src)) elements.
CopyWords(dst, src) ==
  [j \in 1 .. Len(dst) |-> IF j <= Len(src) THEN src[j] ELSE dst[j]]

wordCount(bv) == wordsNeeded(bv.n)

\* Clone returning the receiver itself instead of a copy in a new array.
CloneShared(bv, q) == bv

Clone(bv, q) == [New(bv.n, q) EXCEPT !.b = CopyWords(@, bv.b)]

\* b.Copy(c): the words of c afterwards, and the number Copy returns.
Copy(bv, c) == [c EXCEPT !.b = CopyWords(@, bv.b)]

CopyReturn(bv, c) == IF bv.n < c.n THEN bv.n ELSE c.n

m1 == 1431655765 % WordMod

m2 == 858993459 % WordMod

m4 == 252645135 % WordMod

popCountUint32(x) ==
  LET x1 == (x + WordMod - And(Shr(x, 1), m1)) % WordMod
      x2 == (And(x1, m2) + And(Shr(x1, 2), m2)) % WordMod
      x3 == And((x2 + Shr(x2, 4)) % WordMod, m4)
      x4 == (x3 + Shr(x3, 8)) % WordMod
      x5 == (x4 + Shr(x4, 16)) % WordMod
  IN  And(x5, 127 % WordMod)

RECURSIVE SumPop(_, _)
SumPop(ws, j) ==
  IF j > Len(ws) THEN 0 ELSE popCountUint32(ws[j]) + SumPop(ws, j + 1)

Count(bv) == U(SumPop(bv.b, 1))

\* Equal panics: c has fewer words than b although the lengths agree.
EqualPanics(bv, c) == bv.n = c.n /\ Len(bv.b) > Len(c.b)

Equal(bv, c) ==
  /\ bv.n = c.n
  /\ Len(bv.b) <= Len(c.b)
  /\ \A j \in 1 .. Len(bv.b) : c.b[j] = bv.b[j]

\* for i := 0; i < cnt; i++ { res.b[i] = x.b[i] op y.b[i] }, which panics at
\* the first i that one of the three slices does not hold.
WordOp(op, v, w) ==
  CASE op = "&" -> And(v, w)
    [] op = "|" -> Or(v, w)
    [] op = "^" -> Xor(v, w)
    [] op = "&^" -> AndNot(v, w)

WordLoop(op, res, x, y, cnt) ==
  LET safe == IF cnt = 0 THEN 0
              ELSE CHOOSE m \in 0 .. cnt :
                     /\ \A k \in 0 .. (m - 1) :
                          k < Len(res.b) /\ k < Len(x.b) /\ k < Len(y.b)
                     /\ (m < cnt =>
                          ~(m < Len(res.b) /\ m < Len(x.b) /\ m < Len(y.b)))
  IN  [ok |-> safe = cnt, n |-> res.n, p |-> res.p,
       b |-> [j \in 1 .. Len(res.b) |->
                IF j <= safe THEN WordOp(op, x.b[j], y.b[j]) ELSE res.b[j]]]

Min(x, y) == IF x < y THEN x ELSE y

Difference(bv, ob, q) ==
  WordLoop("&^", Clone(bv, q), bv, ob, Min(Len(bv.b), wordCount(ob)))

\* sortByLength: the pair (shorter, longer), the receiver first on a tie.
sortByLength(a, b) == IF a.n <= b.n THEN <<a, b>> ELSE <<b, a>>

Intersection(bv, ob, q) ==
  LET s == sortByLength(bv, ob)
  IN  WordLoop("&", New(s[1].n, q), s[1], s[2], Len(s[1].b))

Union(bv, ob, q) ==
  LET s == sortByLength(bv, ob)
  IN  WordLoop("|", Clone(s[2], q), s[1], s[2],
               Min(Len(s[1].b), wordCount(s[2])))

SymmetricDifference(bv, ob, q) ==
  LET s == sortByLength(bv, ob)
  IN  WordLoop("^", Clone(s[2], q), s[1], s[2],
               Min(Len(s[1].b), wordCount(s[1])))

isEven(bv) == bv.n % lWord = 0

cleanLastWord(bv) ==
  LET k == U(wordsNeeded(bv.n) + UintMod - 1)
  IN  IF isEven(bv) THEN [ok |-> TRUE, n |-> bv.n, p |-> bv.p, b |-> bv.b]
      ELSE IF k < Len(bv.b)
      THEN [ok |-> TRUE, n |-> bv.n, p |-> bv.p,
            b |-> [bv.b EXCEPT
                     ![k + 1] = And(@, Shr(allBits, lWord - (bv.n % lWord)))]]
      ELSE [ok |-> FALSE, n |-> bv.n, p |-> bv.p, b |-> bv.b]

\* String reads b.b[i] for i from int(wordsNeeded(b.n) - 1) down to 0.  When
\* wordsNeeded is 0 the uint32 subtraction wraps to MaxUint32: an int of 64 bits
\* (wide) makes that the first index read, an int of 32 bits makes it -1 and the
\* loop does not run.
StringPanics(bv, wide) ==
  IF wordsNeeded(bv.n) = 0 THEN wide ELSE wordsNeeded(bv.n) > Len(bv.b)

Complement(bv, q, wide) ==
  LET r0 == New(bv.n, q)
      r1 == [ok |-> Len(bv.b) <= Len(r0.b), n |-> r0.n, p |-> q,
             b |-> [j \in 1 .. Len(r0.b) |->
                      IF j <= Len(bv.b) THEN Not(bv.b[j]) ELSE r0.b[j]]]
  IN  IF StringPanics(bv, wide) \/ ~r1.ok
      THEN [ok |-> FALSE, n |-> r0.n, p |-> q, b |-> r0.b]
      ELSE cleanLastWord([n |-> r1.n, b |-> r1.b, p |-> q])

All(bv) == Count(bv) = bv.n

None(bv) == \A j \in 1 .. Len(bv.b) : ~(bv.b[j] > 0)

Any(bv) == ~None(bv)

\* ------------------------------------------------------------ the program state
\* Two program variables, a and b, hold bitsets: each is made by New and may
\* later be assigned what Clone, Complement or a set-algebra method returns.
\* bs[o] is the struct variable o points to (its n and the identity p of the
\* backing array of its b); mem[q] is the content of array q.  Arrays are named
\* up to renaming: after `dst = x.Op(y)` the array dst held before is
\* unreachable, and the array make() returned for the result takes its name.
\* ret is a history variable: ret.var is the variable that was last assigned a
\* returned bitset ("none" before the first), ret.act the receiver of the last
\* mutating call since then ("none" when there was none).

VARIABLES bs, mem, panicked, ret

vars == <<bs, mem, panicked, ret>>

Objs == {"a", "b"}

\* The lengths New is called with and the indices the bit operations are
\* called with: the ends of the index type and the word boundaries.
Sizes == {0, lWord, MaxUint - 1, MaxUint}

Indices == {lWord - 1, lWord, MaxUint - lWord, MaxUint - 1, MaxUint}

Val(o) == [n |-> bs[o].n, b |-> mem[bs[o].p], p |-> bs[o].p]

Init ==
  /\ \E na \in Sizes, nb \in Sizes :
       /\ bs = [o \in Objs |->
                  IF o = "a" THEN [n |-> na, p |-> 1] ELSE [n |-> nb, p |-> 2]]
       /\ mem = <<New(na, 1).b, New(nb, 2).b>>
  /\ panicked = FALSE
  /\ ret = [var |-> "none", act |-> "none"]

\* A method with receiver o has run and left the value v (v.ok = FALSE: it
\* panicked after assigning v).
Mutate(o, v) ==
  /\ bs' = [bs EXCEPT ![o] = [n |-> v.n, p |-> v.p]]
  /\ mem' = [mem EXCEPT ![v.p] = v.b]
  /\ panicked' = ~v.ok
  /\ ret' = [ret EXCEPT !.act = o]

\* dst = <a method returning the new bitset v>; a panic assigns nothing.  The
\* result was built in array v.p: the fresh one, or, should the method have
\* returned storage of an operand, that operand's.
Return(dst, v) ==
  /\ bs' = IF v.ok THEN [bs EXCEPT ![dst] = [n |-> v.n, p |-> v.p]] ELSE bs
  /\ mem' = IF v.ok \/ v.p # bs[dst].p THEN [mem EXCEPT ![v.p] = v.b] ELSE mem
  /\ panicked' = ~v.ok
  /\ ret' = IF v.ok THEN [var |-> dst, act |-> "none"] ELSE ret

CallSet(o, i) ==
  /\ ~panicked
  /\ Mutate(o, Set(Val(o), i))

CallClear(o, i) ==
  /\ ~panicked
  /\ Mutate(o, Clear(Val(o), i))

CallFlip(o, i) ==
  /\ ~panicked
  /\ Mutate(o, Flip(Val(o), i))

CallClearAll(o) ==
  /\ ~panicked
  /\ Mutate(o, [ok |-> TRUE, n |-> Val(o).n, p |-> Val(o).p,
                b |-> ClearAll(Val(o)).b])

\* src.Copy(dst)
CallCopy(src, dst) ==
  /\ ~panicked /\ src # dst
  /\ Mutate(dst, [ok |-> TRUE, n |-> Val(dst).n, p |-> Val(dst).p,
                  b |-> Copy(Val(src), Val(dst)).b])

\* dst = x.Clone()
CallClone(dst, x) ==
  /\ ~panicked
  /\ LET c == Clone(Val(x), bs[dst].p)
     IN  Return(dst, [ok |-> TRUE, n |-> c.n, p |-> c.p, b |-> c.b])

\* dst = x.Complement()
CallComplement(dst, x) ==
  /\ ~panicked
  /\ \E wide \in BOOLEAN : Return(dst, Complement(Val(x), bs[dst].p, wide))

\* dst = x.Difference(y)
CallDifference(dst, x, y) ==
  /\ ~panicked
  /\ Return(dst, Difference(Val(x), Val(y), bs[dst].p))

\* dst = x.Intersection(y)
CallIntersection(dst, x, y) ==
  /\ ~panicked
  /\ Return(dst, Intersection(Val(x), Val(y), bs[dst].p))

\* dst = x.Union(y)
CallUnion(dst, x, y) ==
  /\ ~panicked
  /\ Return(dst, Union(Val(x), Val(y), bs[dst].p))

\* dst = x.SymmetricDifference(y)
CallSymmetricDifference(dst, x, y) ==
  /\ ~panicked
  /\ Return(dst, SymmetricDifference(Val(x), Val(y), bs[dst].p))

Next ==
  \/ \E o \in Objs, i \in Indices : CallSet(o, i)
  \/ \E o \in Objs, i \in Indices : CallClear(o, i)
  \/ \E o \in Objs, i \in Indices : CallFlip(o, i)
  \/ \E o \in Objs : CallClearAll(o)
  \/ \E src \in Objs, dst \in Objs : CallCopy(src, dst)
  \/ \E dst \in Objs, x \in Objs : CallClone(dst, x)
  \/ \E dst \in Objs, x \in Objs : CallComplement(dst, x)
  \/ \E dst \in Objs, x \in Objs, y \in Objs : CallDifference(dst, x, y)
  \/ \E dst \in Objs, x \in Objs, y \in Objs : CallIntersection(dst, x, y)
  \/ \E dst \in Objs, x \in Objs, y \in Objs : CallUnion(dst, x, y)
  \/ \E dst \in Objs, x \in Objs, y \in Objs : CallSymmetricDifference(dst, x, y)

Spec == Init /\ [][Next]_vars

\* ------------------------------------------------------------------ the claims

\* The bitset variable o holds after the step.
PostVal(o) == [n |-> bs'[o].n, b |-> mem'[bs'[o].p], p |-> bs'[o].p]

\* No word holds a set bit at a logical position >= Len().
NoStrayBit(bv) ==
  \A j \in 1 .. Len(bv.b), k \in 0 .. (lWord - 1) :
    BitAt(bv.b[j], k) = 1 => ((j - 1) * lWord + k < bv.n)

\* The number of positions i < Len() for which Test(i) is true.
TestCount(bv) == Cardinality({i \in 0 .. MaxUint : Test(bv, i)})

\* ceil(n / lWord) over the integers, and 1 for n = 0.
CeilWords(n) == IF n = 0 THEN 1 ELSE (n + lWord - 1) \div lWord

\* b.b holds exactly the words that b.n positions need.
WellSized(bv) == Len(bv.b) = CeilWords(bv.n)

\* The step is a call of a mutating method with receiver o (for Copy: with
\* destination o).
ReceiverStep(o) ==
  \/ \E i \in Indices : CallSet(o, i) \/ CallClear(o, i) \/ CallFlip(o, i)
  \/ CallClearAll(o)
  \/ \E src \in Objs : CallCopy(src, o)

\* The step assigns a returned bitset to the variable o.
AssignStep(o) ==
  \/ \E x \in Objs : CallClone(o, x) \/ CallComplement(o, x)
  \/ \E x \in Objs, y \in Objs :
       \/ CallDifference(o, x, y)
       \/ CallIntersection(o, x, y)
       \/ CallUnion(o, x, y)
       \/ CallSymmetricDifference(o, x, y)

\* The struct and the words of o are as before the step.
Untouched(o) == bs'[o] = bs[o] /\ mem'[bs[o].p] = mem[bs[o].p]

\* C1: every bitset made by New and changed only by Set, Clear, Flip, ClearAll
\* and Copy (no returned bitset has been assigned yet) has no set bit at a
\* position >= Len(), so that Count() is the number of positions Test accepts.
C1_PaddingZero ==
  (~panicked /\ ret.var = "none") =>
    \A o \in Objs :
      NoStrayBit(Val(o)) /\ Count(Val(o)) = TestCount(Val(o))

\* C2: after Set(i), for every index i, Test(i) is true and Len() >= i + 1.
C2_SetThenTest ==
  [][\A o \in Objs, i \in Indices :
       CallSet(o, i) =>
         /\ ~panicked'
         /\ ~TestPanics(PostVal(o), i) /\ Test(PostVal(o), i)
         /\ PostVal(o).n >= i + 1]_vars

\* C3: a Flip(i) with i >= Len() that returns leaves Len() = i + 1 and bit i
\* set.
C3_FlipGrowthSets ==
  [][\A o \in Objs, i \in Indices :
       (CallFlip(o, i) /\ i >= bs[o].n /\ ~panicked') =>
         (PostVal(o).n = i + 1 /\ Test(PostVal(o), i))]_vars

\* C4: the complement of a bitset a that holds the words its length needs and
\* no stray bit has a's length, the negated bit at every position below it, no
\* set bit at or above it, and Count() = a.Len() - a.Count().
C4_Complement ==
  [][\A dst \in Objs, x \in Objs :
       (CallComplement(dst, x) /\ WellSized(Val(x)) /\ NoStrayBit(Val(x))) =>
         /\ ~panicked'
         /\ PostVal(dst).n = Val(x).n
         /\ \A i \in 0 .. MaxUint :
              i < Val(x).n => (Test(PostVal(dst), i) = ~Test(Val(x), i))
         /\ NoStrayBit(PostVal(dst))
         /\ Count(PostVal(dst)) = Val(x).n - Count(Val(x))]_vars

\* x.Op(y) and y.Op(x) both return, and the results are Equal and of length n.
Apply(op, x, y, q) ==
  CASE op = "Union" -> Union(x, y, q)
    [] op = "Intersection" -> Intersection(x, y, q)
    [] op = "SymmetricDifference" -> SymmetricDifference(x, y, q)

Commutes(op, x, y, n) ==
  LET u == Apply(op, x, y, 3)
      v == Apply(op, y, x, 4)
  IN  /\ u.ok /\ v.ok
      /\ ~EqualPanics(u, v) /\ Equal(u, v)
      /\ u.n = n

Longer(x, y) == IF x.n >= y.n THEN x.n ELSE y.n

\* C5: Union, Intersection and SymmetricDifference are commutative for any two
\* bitsets, the result having the longer operand's length (Intersection: the
\* shorter's).
C5_Commutative ==
  ~panicked =>
    \A x \in Objs, y \in Objs :
      /\ Commutes("Union", Val(x), Val(y), Longer(Val(x), Val(y)))
      /\ Commutes("Intersection", Val(x), Val(y), Min(Val(x).n, Val(y).n))
      /\ Commutes("SymmetricDifference", Val(x), Val(y), Longer(Val(x), Val(y)))

\* a.Difference(b).Count() + a.Intersection(b).Count() = a.Count(), both
\* methods returning.
CountSplits(x, y) ==
  LET d == Difference(x, y, 3)
      i == Intersection(x, y, 4)
  IN  d.ok /\ i.ok /\ Count(d) + Count(i) = Count(x)

\* C6: for any two bitsets a and b,
\* a.Difference(b).Count() + a.Intersection(b).Count() = a.Count().
C6_DifferenceCount ==
  ~panicked => \A x \in Objs, y \in Objs : CountSplits(Val(x), Val(y))

\* C7: no call on a bitset, and no use of it as an operand, makes its Len()
\* smaller, and only Set or Flip with an index >= Len() changes it.
C7_LenNeverShrinks ==
  [][\A o \in Objs :
       ~AssignStep(o) =>
         /\ bs'[o].n >= bs[o].n
         /\ (bs'[o].n # bs[o].n =>
               \E i \in Indices :
                 i >= bs[o].n /\ (CallSet(o, i) \/ CallFlip(o, i)))]_vars

\* C8: a Set(i) or Clear(i) that returns, on a bitset changed only by Set,
\* Clear, Flip, ClearAll and Copy, leaves Test(j) as it was for every j # i.
C8_OnlyBitI ==
  [][\A o \in Objs, i \in Indices :
       ((CallSet(o, i) \/ CallClear(o, i)) /\ ~panicked' /\ ret.var = "none") =>
         \A j \in 0 .. MaxUint :
           j # i => (Test(PostVal(o), j) = Test(Val(o), j))]_vars

\* C9: a and b never share a backing array, and a step changes the struct or
\* the words of a bitset only if it is a mutating call with that bitset as the
\* receiver (or Copy's destination) or the assignment of a returned bitset to
\* its variable: Clone, Complement and the set algebra leave their operands as
\* they were, and mutating the result or an operand leaves the other alone.
C9_OperandsUnchanged ==
  [][/\ bs'["a"].p # bs'["b"].p
     /\ \A o \in Objs :
          \/ Untouched(o)
          \/ ret'.act = o
          \/ ret'.act = "none" /\ ret'.var = o]_vars

\* C9's case: a holds a returned bitset, a mutating method has run since, and
\* both a and b hold set bits in words that differ.
C9_Witness ==
  /\ ~panicked
  /\ ret.var = "a" /\ ret.act # "none"
  /\ Any(Val("a")) /\ Any(Val("b"))
  /\ Val("a").b # Val("b").b

\* C10: the number of words is ceil(Len() / lWord), 1 for Len() = 0, so every
\* position below Len() has a word.
C10_WordCount ==
  ~panicked =>
    \A o \in Objs :
      /\ WellSized(Val(o))
      /\ \A i \in 0 .. MaxUint : i < Val(o).n => InRange(Val(o), WordIdx(i))

\* ------------------------------------------------- what the code does instead
\* Properties that hold of the model next to the claims the code breaks: they
\* locate each failure.

\* The step is a mutating call with receiver o other than Copy into o.
BitStep(o) == ret'.act = o /\ ~(\E src \in Objs : CallCopy(src, o))

\* Set, Clear, Flip and ClearAll, when they return, keep a bitset free of stray
\* bits: of the mutating methods only Copy introduces one.
StrayBitsOnlyByCopy ==
  [][\A o \in Objs :
       (BitStep(o) /\ ~panicked' /\ NoStrayBit(Val(o))) =>
         NoStrayBit(PostVal(o))]_vars

\* Set(i) does what is claimed for every index i <= MaxUint - lWord on a
\* bitset that holds the words its length needs.
SetBelowLimit ==
  [][\A o \in Objs, i \in Indices :
       (CallSet(o, i) /\ WellSized(Val(o)) /\ i <= MaxUint - lWord) =>
         /\ ~panicked'
         /\ Test(PostVal(o), i)
         /\ PostVal(o).n >= i + 1]_vars

\* A Flip(i) with i >= Len() that returns leaves Len() = i + 1 and bit i clear:
\* Set sets the bit and the exclusive-or that follows clears it.
FlipGrowthClears ==
  [][\A o \in Objs, i \in Indices :
       (CallFlip(o, i) /\ i >= bs[o].n /\ ~panicked') =>
         (PostVal(o).n = i + 1 /\ ~Test(PostVal(o), i))]_vars

\* Complement is as claimed on every well-sized bitset without stray bits
\* whose length is not 0.
ComplementNonEmpty ==
  [][\A dst \in Objs, x \in Objs :
       (/\ CallComplement(dst, x)
        /\ WellSized(Val(x)) /\ NoStrayBit(Val(x)) /\ Val(x).n # 0) =>
         /\ ~panicked'
         /\ PostVal(dst).n = Val(x).n
         /\ \A i \in 0 .. MaxUint :
              i < Val(x).n => (Test(PostVal(dst), i) = ~Test(Val(x), i))
         /\ NoStrayBit(PostVal(dst))
         /\ Count(PostVal(dst)) = Val(x).n - Count(Val(x))]_vars

\* The three methods commute on operands that hold the words their lengths
\* need.
CommutativeWellSized ==
  ~panicked =>
    \A x \in Objs, y \in Objs :
      (WellSized(Val(x)) /\ WellSized(Val(y))) =>
        /\ Commutes("Union", Val(x), Val(y), Longer(Val(x), Val(y)))
        /\ Commutes("Intersection", Val(x), Val(y), Min(Val(x).n, Val(y).n))
        /\ Commutes("SymmetricDifference", Val(x), Val(y),
                    Longer(Val(x), Val(y)))

\* The count identity holds on operands that hold the words their lengths
\* need.
DifferenceCountWellSized ==
  ~panicked =>
    \A x \in Objs, y \in Objs :
      (WellSized(Val(x)) /\ WellSized(Val(y))) => CountSplits(Val(x), Val(y))

\* Len() does not decrease in a step that returns, unless the step assigns a
\* returned bitset to the variable.
LenGrowsUnlessPanic ==
  [][\A o \in Objs :
       (~panicked' /\ ~(ret'.act = "none" /\ ret'.var = o)) =>
         bs'[o].n >= bs[o].n]_vars

\* Set(i) and Clear(i), when they return, change Test only at i on a bitset
\* without stray bits.
OnlyBitIWithoutStrayBits ==
  [][\A o \in Objs, i \in Indices :
       (/\ CallSet(o, i) \/ CallClear(o, i)
        /\ ~panicked' /\ NoStrayBit(Val(o))) =>
         \A j \in 0 .. MaxUint :
           j # i => (Test(PostVal(o), j) = Test(Val(o), j))]_vars

\* The number of words is always wordsNeeded(Len()), the wrapping count.
WordCountIsWordsNeeded ==
  ~panicked => \A o \in Objs : Len(Val(o).b) = wordsNeeded(Val(o).n)

====
